---- MODULE Spec2Model ----
(***************************************************************************)
(* Model of app.py, the resume / job-description matcher.                  *)
(*                                                                         *)
(* A Python str is a sequence of Unicode code points (naturals), so that   *)
(* lower(), the two re.sub calls, strip(), split(), the vectorizer's       *)
(* tokenizer and sorted() are computed character by character.             *)
(*                                                                         *)
(* Three specifications share the variables:                               *)
(*   SpecCleanText   clean_text applied to one argument                    *)
(*   SpecSkillMatch  calculate_skill_match applied to a pair of texts      *)
(*   Spec            the Streamlit script: uploads and "Analyze Match"     *)
(***************************************************************************)
EXTENDS Integers, Sequences, FiniteSets, TLC

\* Longest raw string given to clean_text.
MaxLen == 4
\* Most whitespace tokens in a text given to calculate_skill_match.
MaxTokens == 3

VARIABLES
    text,                       \* clean_text: its argument
    cleaned,                    \* clean_text: its outcome
    resume_text,                \* calculate_skill_match: first argument
    job_description_text,       \* calculate_skill_match: second argument
    matched,                    \* calculate_skill_match: its outcome
    resume_file,                \* the resume uploader's value
    job_description_file,       \* the job-description uploader's value
    resume_raw_text,            \* script global, line 55
    job_description_raw_text,   \* script global, line 56
    analyze_pressed,            \* st.button("Analyze Match") in the last run
    shown,                      \* what the last script run put on the page
    calls                       \* the helper calls the last script run made

vars == <<text, cleaned, resume_text, job_description_text, matched,
          resume_file, job_description_file, resume_raw_text,
          job_description_raw_text, analyze_pressed, shown, calls>>

-----------------------------------------------------------------------------
(* Python values *)

\* A str argument, and the None argument.
PyStr(s) == [none |-> FALSE, chars |-> s]
PyNone == [none |-> TRUE, chars |-> <<>>]

\* Outcomes of a clean_text call: it has not happened, it returned, it raised.
NotCalled == [status |-> "not called", exc |-> "", value |-> <<>>]
Returned(v) == [status |-> "returned", exc |-> "", value |-> v]
Raised(e) == [status |-> "raised", exc |-> e, value |-> <<>>]

\* The code point of ' ', the replacement string of both re.sub calls.
SPACE == 32

\* All sequences over S of length at most n.
SeqsUpTo(S, n) == UNION {[1..k -> S] : k \in 0..n}

-----------------------------------------------------------------------------
(* clean_text *)

\* str.lower() on one code point: A-Z map to a-z; U+0130 (capital I with dot
\* above) lowers to the two code points U+0069 U+0307; every other code point
\* of the model's alphabets is unchanged.
LowerChar(c) ==
    IF c \in 65..90 THEN <<c + 32>>
    ELSE IF c = 304 THEN <<105, 775>>
    ELSE <<c>>

RECURSIVE lower(_)
lower(s) == IF s = <<>> THEN <<>> ELSE LowerChar(Head(s)) \o lower(Tail(s))

\* The character class [a-zA-Z].
IsAsciiLetter(c) == c \in 65..90 \/ c \in 97..122

\* The class [A-z], which also holds [ \ ] ^ _ `.
IsAsciiLetterWideRange(c) == c \in 65..122

\* re.sub(r'[^a-zA-Z]', ' ', text) with the class [A-z] in place of [a-zA-Z].
re_sub_non_letters_wide_range(s) ==
    [i \in 1..Len(s) |-> IF IsAsciiLetterWideRange(s[i]) THEN s[i] ELSE SPACE]

\* re.sub(r'[^a-zA-Z]', ' ', text): every code point outside a-z, A-Z becomes ' '.
re_sub_non_letters(s) ==
    [i \in 1..Len(s) |-> IF IsAsciiLetter(s[i]) THEN s[i] ELSE SPACE]

\* \s of a str pattern, and the characters str.strip() and str.split() remove:
\* space, \t \n \v \f \r, U+001C..U+001F, U+0085, U+00A0.
IsSpace(c) == c \in {32, 9, 10, 11, 12, 13, 28, 29, 30, 31, 133, 160}

RECURSIVE lstrip(_)
lstrip(s) == IF s # <<>> /\ IsSpace(Head(s)) THEN lstrip(Tail(s)) ELSE s

RECURSIVE rstrip(_)
rstrip(s) ==
    IF s # <<>> /\ IsSpace(s[Len(s)]) THEN rstrip(SubSeq(s, 1, Len(s) - 1)) ELSE s

\* str.strip()
strip(s) == rstrip(lstrip(s))

\* re.sub(r'\s+', ' ', text): each maximal run of whitespace becomes one ' '.
RECURSIVE re_sub_whitespace(_)
re_sub_whitespace(s) ==
    IF s = <<>> THEN <<>>
    ELSE IF IsSpace(Head(s)) THEN <<SPACE>> \o re_sub_whitespace(lstrip(Tail(s)))
    ELSE <<Head(s)>> \o re_sub_whitespace(Tail(s))

\* clean_text(text). None has no attribute lower: line 21 raises AttributeError.
clean_text(t) ==
    IF t.none THEN Raised("AttributeError")
    ELSE Returned(strip(re_sub_whitespace(re_sub_non_letters(lower(t.chars)))))

\* The characters of the raw strings: a z Z [ 1 ' ' \n U+0130.
RawAlphabet == {97, 122, 90, 91, 49, 32, 10, 304}

RawStrings == SeqsUpTo(RawAlphabet, MaxLen)

CleanTextArguments == {PyNone} \cup {PyStr(s) : s \in RawStrings}

-----------------------------------------------------------------------------
(* calculate_skill_match *)

\* Outcomes of a calculate_skill_match call. score is the returned similarity
\* in whole percent (rounded down), missing the returned list, fitted whether
\* the call reached TfidfVectorizer.fit_transform.
MatchNotCalled ==
    [status |-> "not called", exc |-> "", score |-> 0, missing |-> <<>>,
     fitted |-> FALSE]
MatchReturned(sc, ms, f) ==
    [status |-> "returned", exc |-> "", score |-> sc, missing |-> ms, fitted |-> f]
MatchRaised(e) ==
    [status |-> "raised", exc |-> e, score |-> 0, missing |-> <<>>, fitted |-> TRUE]

\* str.split(): the maximal runs of non-whitespace characters, in order.
RECURSIVE split_from(_, _)
split_from(s, cur) ==
    LET done == IF cur = <<>> THEN <<>> ELSE <<cur>>
    IN  IF s = <<>> THEN done
        ELSE IF IsSpace(Head(s)) THEN done \o split_from(Tail(s), <<>>)
        ELSE split_from(Tail(s), Append(cur, Head(s)))

split(s) == split_from(s, <<>>)

\* set(seq)
set(seq) == {seq[i] : i \in DOMAIN seq}

\* Python's order on str: by code point, a proper prefix first.
RECURSIVE StrLess(_, _)
StrLess(a, b) ==
    IF b = <<>> THEN FALSE
    ELSE IF a = <<>> THEN TRUE
    ELSE IF Head(a) # Head(b) THEN Head(a) < Head(b)
    ELSE StrLess(Tail(a), Tail(b))

\* sorted(list(S))
RECURSIVE sorted(_)
sorted(S) ==
    IF S = {} THEN <<>>
    ELSE LET m == CHOOSE x \in S : \A y \in S \ {x} : StrLess(x, y)
         IN  <<m>> \o sorted(S \ {m})

\* Lines 37-39 with the difference taken the wrong way round.
missing_skills_reversed(r, j) == sorted(set(split(r)) \ set(split(j)))

\* Lines 37-39: sorted(list(job_words - resume_words)).
missing_skills(r, j) == sorted(set(split(j)) \ set(split(r)))

\* \w of the vectorizer's token pattern, on ASCII: digits, letters, underscore.
IsWordChar(c) == c \in 48..57 \/ c \in 65..90 \/ c = 95 \/ c \in 97..122

\* re.findall(r"(?u)\b\w\w+\b", doc), TfidfVectorizer's default token_pattern:
\* the maximal runs of word characters that are at least two long.
RECURSIVE word_runs_from(_, _)
word_runs_from(s, cur) ==
    LET done == IF Len(cur) >= 2 THEN <<cur>> ELSE <<>>
    IN  IF s = <<>> THEN done
        ELSE IF ~IsWordChar(Head(s)) THEN done \o word_runs_from(Tail(s), <<>>)
        ELSE word_runs_from(Tail(s), Append(cur, Head(s)))

token_pattern_findall(s) == word_runs_from(s, <<>>)

\* sklearn's ENGLISH_STOP_WORDS, cut down to its entries spelled with the
\* letters a, n, t of the model's texts: "a", "an", "at".
ENGLISH_STOP_WORDS == {<<97>>, <<97, 110>>, <<97, 116>>}

\* The analyzer with stop_words=None: no stop-word filter.
analyze_keeping_stop_words(doc) == token_pattern_findall(lower(doc))

\* TfidfVectorizer(stop_words='english').build_analyzer(): lowercase, tokenize,
\* drop the stop-words.
analyze(doc) ==
    SelectSeq(token_pattern_findall(lower(doc)),
              LAMBDA t : t \notin ENGLISH_STOP_WORDS)

\* smooth_idf with n = 2 documents: idf = ln(3 / (1 + df)) + 1, which is 1 for
\* df = 2 and 1.405... for df = 1. Weights are kept as integers in units of
\* 1/5, with 7/5 standing for 1.405...
idf5(d) == IF d = 2 THEN 5 ELSE 7

\* TfidfVectorizer(stop_words='english').fit_transform([r, j]): the vocabulary
\* fitted on the two documents jointly and, for each document, the weight
\* tf * idf of every vocabulary term (in units of 1/5, before L2 normalisation,
\* which does not change a cosine).
fit_transform(r, j) ==
    LET ar == analyze(r)
        aj == analyze(j)
        V == set(ar) \cup set(aj)
        tf(a, t) == Cardinality({i \in DOMAIN a : a[i] = t})
        df(t) == (IF t \in set(ar) THEN 1 ELSE 0) + (IF t \in set(aj) THEN 1 ELSE 0)
    IN  [vocabulary |-> V,
         resume |-> [t \in V |-> tf(ar, t) * idf5(df(t))],
         job |-> [t \in V |-> tf(aj, t) * idf5(df(t))]]

RECURSIVE SumOver(_, _)
SumOver(S, f) ==
    IF S = {} THEN 0
    ELSE LET x == CHOOSE y \in S : TRUE IN f[x] + SumOver(S \ {x}, f)

\* x . y
Dot(x, y) == SumOver(DOMAIN x, [t \in DOMAIN x |-> x[t] * y[t]])

\* Largest s with s * s <= q, for q in 0..10000.
ISqrt(q) == CHOOSE s \in 0..100 : s * s <= q /\ (s = 100 \/ (s + 1) * (s + 1) > q)

\* The cosine without the "* 100" of line 34.
cosine_unscaled(x, y) ==
    IF Dot(x, x) = 0 \/ Dot(y, y) = 0 THEN 0
    ELSE ISqrt((Dot(x, y) * Dot(x, y)) \div (Dot(x, x) * Dot(y, y)))

\* A cosine that divides by the first vector's norm only.
cosine_one_norm(x, y) ==
    IF Dot(x, x) = 0 THEN 0
    ELSE LET q == (10000 * Dot(x, y) * Dot(x, y)) \div (Dot(x, x) * Dot(x, x))
         IN  IF q > 10000 THEN 100 ELSE ISqrt(q)

\* cosine_similarity(x, y)[0][0] * 100, rounded down to a whole percent:
\* 100 * (x . y) / (|x| |y|). cosine_similarity normalises each row, leaving a
\* zero row zero, so the cosine of a zero row with anything is 0.
cosine_similarity_percent(x, y) ==
    IF Dot(x, x) = 0 \/ Dot(y, y) = 0 THEN 0
    ELSE ISqrt((10000 * Dot(x, y) * Dot(x, y)) \div (Dot(x, x) * Dot(y, y)))

\* Lines 30-34 once the vocabulary is known to be non-empty.
similarity(vectors) == cosine_similarity_percent(vectors.resume, vectors.job)

\* calculate_skill_match with "and" in place of "or" in the guard of line 27.
calculate_skill_match_and_guard(r, j) ==
    IF r = <<>> /\ j = <<>> THEN MatchReturned(0, <<>>, FALSE)
    ELSE LET vectors == fit_transform(r, j)
         IN  IF vectors.vocabulary = {} THEN MatchRaised("ValueError")
             ELSE MatchReturned(similarity(vectors), missing_skills(r, j), TRUE)

\* calculate_skill_match(resume_text, job_description_text). fit_transform
\* raises ValueError("empty vocabulary; ...") when no term is left.
calculate_skill_match(r, j) ==
    IF r = <<>> \/ j = <<>> THEN MatchReturned(0, <<>>, FALSE)
    ELSE LET vectors == fit_transform(r, j)
         IN  IF vectors.vocabulary = {} THEN MatchRaised("ValueError")
             ELSE MatchReturned(similarity(vectors), missing_skills(r, j), TRUE)

\* The tokens of the texts: "t" (a single letter), "an" (a stop-word), and the
\* vocabulary terms "ant" and "tan".
Lexicon == {<<116>>, <<97, 110>>, <<97, 110, 116>>, <<116, 97, 110>>}

\* ' '.join(tokens)
RECURSIVE join(_)
join(tokens) ==
    IF tokens = <<>> THEN <<>>
    ELSE IF Len(tokens) = 1 THEN tokens[1]
    ELSE tokens[1] \o <<SPACE>> \o join(Tail(tokens))

\* The normalized texts of at most MaxTokens tokens, "" among them.
NormalizedTexts == {join(ts) : ts \in SeqsUpTo(Lexicon, MaxTokens)}

-----------------------------------------------------------------------------
(* SpecCleanText: clean_text on every argument *)

Idle ==
    /\ resume_file = [type |-> "None", content |-> <<>>]
    /\ job_description_file = [type |-> "None", content |-> <<>>]
    /\ resume_raw_text = <<>> /\ job_description_raw_text = <<>>
    /\ analyze_pressed = FALSE /\ shown = <<>> /\ calls = <<>>

InitCleanText ==
    /\ text \in CleanTextArguments
    /\ cleaned = NotCalled
    /\ resume_text = <<>> /\ job_description_text = <<>>
    /\ matched = MatchNotCalled
    /\ Idle

CallCleanText ==
    /\ cleaned.status = "not called"
    /\ cleaned' = clean_text(text)
    /\ UNCHANGED <<text, resume_text, job_description_text, matched, resume_file,
                   job_description_file, resume_raw_text, job_description_raw_text,
                   analyze_pressed, shown, calls>>

NextCleanText == CallCleanText

SpecCleanText == InitCleanText /\ [][NextCleanText]_vars

-----------------------------------------------------------------------------
(* SpecSkillMatch: calculate_skill_match on every pair of normalized texts *)

InitSkillMatch ==
    /\ resume_text \in NormalizedTexts
    /\ job_description_text \in NormalizedTexts
    /\ matched = MatchNotCalled
    /\ text = PyNone /\ cleaned = NotCalled
    /\ Idle

CallSkillMatch ==
    /\ matched.status = "not called"
    /\ matched' = calculate_skill_match(resume_text, job_description_text)
    /\ UNCHANGED <<text, cleaned, resume_text, job_description_text, resume_file,
                   job_description_file, resume_raw_text, job_description_raw_text,
                   analyze_pressed, shown, calls>>

NextSkillMatch == CallSkillMatch

SpecSkillMatch == InitSkillMatch /\ [][NextSkillMatch]_vars

-----------------------------------------------------------------------------
(* Spec: the Streamlit script. Every interaction reruns it from the top. *)

PDF == "application/pdf"
DOCX == "application/vnd.openxmlformats-officedocument.wordprocessingml.document"

\* The MIME types an upload can carry: the two the script handles and another.
FileTypes == {PDF, DOCX, "text/plain"}

\* What the extraction libraries yield for the uploaded documents:
\* "", "1", "An", "Ant", "ant tan".
DocumentTexts ==
    {<<>>, <<49>>, <<65, 110>>, <<65, 110, 116>>, <<97, 110, 116, 32, 116, 97, 110>>}

\* An uploader's value: None, or an uploaded file.
NoFile == [type |-> "None", content |-> <<>>]
UploadedFiles == [type : FileTypes, content : DocumentTexts]

\* extract_text(pdf_file): the document's text.
extract_text_from_pdf(f) == f.content

\* '\n'.join(para.text for para in doc.paragraphs): the document's text.
extract_text_from_docx(f) == f.content

\* Lines 55-74 for one uploader: the raw text, "" when there is no file or the
\* type is neither PDF nor DOCX.
raw_text_of(f) ==
    IF f = NoFile THEN <<>>
    ELSE IF f.type = PDF THEN extract_text_from_pdf(f)
    ELSE IF f.type = DOCX THEN extract_text_from_docx(f)
    ELSE <<>>

\* The st.error of lines 65 and 74.
upload_messages(f, msg) ==
    IF f # NoFile /\ f.type \notin {PDF, DOCX} THEN <<msg>> ELSE <<>>

\* The helper calls of lines 58-74.
upload_calls(f) ==
    IF f = NoFile THEN <<>>
    ELSE IF f.type = PDF THEN <<"extract_text_from_pdf">>
    ELSE IF f.type = DOCX THEN <<"extract_text_from_docx">>
    ELSE <<>>

\* The guard of line 77: both raw texts are non-empty.
both_uploaded(rr, jr) == rr # <<>> /\ jr # <<>>

\* One run of the script, lines 52-99, with the uploaders holding rf and jf and
\* the button returning pressed. An exception ends the run: Streamlit shows it
\* and nothing after it is executed.
Script(rf, jf, pressed) ==
    LET rr == raw_text_of(rf)
        jr == raw_text_of(jf)
        up == upload_messages(rf, "error: unsupported resume file type")
              \o upload_messages(jf, "error: unsupported job description file type")
        upcalls == upload_calls(rf) \o upload_calls(jf)
        cr == clean_text(PyStr(rr)).value
        cj == clean_text(PyStr(jr)).value
        m == calculate_skill_match(cr, cj)
        base == [rr |-> rr, jr |-> jr, cr |-> <<>>, cj |-> <<>>,
                 m |-> MatchNotCalled, shown |-> up, calls |-> upcalls]
    IN  IF ~pressed THEN [base EXCEPT !.shown = up \o <<"footer">>]
        ELSE IF both_uploaded(rr, jr) THEN
            [base EXCEPT
                !.cr = cr, !.cj = cj, !.m = m,
                !.calls = upcalls \o <<"clean_text", "clean_text", "calculate_skill_match">>,
                !.shown =
                    up \o <<"subheader: Analysis Results">> \o
                    (IF m.status = "raised" THEN <<"exception: " \o m.exc>>
                     ELSE <<"score">> \o
                          (IF m.missing # <<>>
                           THEN <<"warning: keywords not found", "missing skills",
                                  "info: consider adding">>
                           ELSE <<"success: no missing skills", "info: covers key terms">>)
                          \o <<"footer">>)]
        ELSE [base EXCEPT !.shown = up \o <<"warning: please upload both">> \o <<"footer">>]

\* The script run that follows an interaction.
Rerun(rf, jf, pressed) ==
    LET run == Script(rf, jf, pressed)
    IN  /\ resume_file' = rf
        /\ job_description_file' = jf
        /\ analyze_pressed' = pressed
        /\ resume_raw_text' = run.rr
        /\ job_description_raw_text' = run.jr
        /\ resume_text' = run.cr
        /\ job_description_text' = run.cj
        /\ matched' = run.m
        /\ shown' = run.shown
        /\ calls' = run.calls
        /\ UNCHANGED <<text, cleaned>>

\* The first run of the script: nothing uploaded, nothing pressed.
Init ==
    LET run == Script(NoFile, NoFile, FALSE)
    IN  /\ resume_file = NoFile
        /\ job_description_file = NoFile
        /\ analyze_pressed = FALSE
        /\ resume_raw_text = run.rr
        /\ job_description_raw_text = run.jr
        /\ resume_text = run.cr
        /\ job_description_text = run.cj
        /\ matched = run.m
        /\ shown = run.shown
        /\ calls = run.calls
        /\ text = PyNone /\ cleaned = NotCalled

UploadResume == \E f \in UploadedFiles : Rerun(f, job_description_file, FALSE)

RemoveResume == resume_file # NoFile /\ Rerun(NoFile, job_description_file, FALSE)

UploadJobDescription == \E f \in UploadedFiles : Rerun(resume_file, f, FALSE)

RemoveJobDescription ==
    job_description_file # NoFile /\ Rerun(resume_file, NoFile, FALSE)

PressAnalyze == Rerun(resume_file, job_description_file, TRUE)

Next ==
    \/ UploadResume
    \/ RemoveResume
    \/ UploadJobDescription
    \/ RemoveJobDescription
    \/ PressAnalyze

Spec == Init /\ [][Next]_vars

-----------------------------------------------------------------------------
(* What the claims speak of, defined from the texts alone *)

\* The whitespace tokens of s: its maximal runs of non-whitespace characters.
WhitespaceTokens(s) ==
    {SubSeq(s, a, b) : <<a, b>> \in
        {p \in (1..Len(s)) \X (1..Len(s)) :
            /\ p[1] <= p[2]
            /\ \A k \in p[1]..p[2] : ~IsSpace(s[k])
            /\ (p[1] = 1 \/ IsSpace(s[p[1] - 1]))
            /\ (p[2] = Len(s) \/ IsSpace(s[p[2] + 1]))}}

\* The tokens of s that can enter the vocabulary: two letters or more, no stop-word.
VocabularyTokens(s) ==
    {t \in WhitespaceTokens(s) : Len(t) >= 2 /\ t \notin ENGLISH_STOP_WORDS}

SkillMatchCalled == matched.status # "not called"

CleanTextCalled == cleaned.status # "not called"

\* The messages of the "Analyze Match" block that report an analysis.
AnalysisMessages ==
    {"subheader: Analysis Results", "score", "warning: keywords not found",
     "missing skills", "info: consider adding", "success: no missing skills",
     "info: covers key terms", "exception: ValueError"}

-----------------------------------------------------------------------------
(* Claims *)

\* C1: when both texts are non-empty and every whitespace token of both is a
\* stop-word or a single letter (the joint vocabulary is empty),
\* calculate_skill_match returns score 0.0 and missing terms [], and does not raise.
C1_EmptyVocabularyReturnsZeroResult ==
    (/\ SkillMatchCalled
     /\ resume_text # <<>> /\ job_description_text # <<>>
     /\ VocabularyTokens(resume_text) \cup VocabularyTokens(job_description_text) = {})
    => (matched.status = "returned" /\ matched.score = 0 /\ matched.missing = <<>>)

\* C2: clean_text returns "" without raising for the empty string and for None.
C2_EmptyOrAbsentInputYieldsEmpty ==
    (CleanTextCalled /\ (text = PyNone \/ text = PyStr(<<>>)))
    => cleaned = Returned(<<>>)

\* C3: for every input string, clean_text returns, and what it returns holds only
\* a-z and ' ', no two consecutive spaces, and no leading or trailing space.
C3_CleanTextIsCanonical ==
    (CleanTextCalled /\ ~text.none) =>
        LET v == cleaned.value
        IN  /\ cleaned.status = "returned"
            /\ \A i \in DOMAIN v : v[i] \in 97..122 \/ v[i] = SPACE
            /\ \A i \in 1..(Len(v) - 1) : ~(v[i] = SPACE /\ v[i + 1] = SPACE)
            /\ v # <<>> => (v[1] # SPACE /\ v[Len(v)] # SPACE)

\* C3 witness: "İ[\n Z" has been cleaned to "i z".
C3_Witness ==
    /\ text = PyStr(<<304, 91, 10, 90>>)
    /\ cleaned = Returned(<<105, 32, 122>>)

\* C4: if either argument is the empty string, calculate_skill_match returns
\* (0.0, []) whatever the other argument is, without fitting a vectorizer.
C4_EmptyArgumentShortCircuits ==
    (SkillMatchCalled /\ (resume_text = <<>> \/ job_description_text = <<>>))
    => matched = MatchReturned(0, <<>>, FALSE)

\* C4 witness: calculate_skill_match("", "ant tan") has returned.
C4_Witness ==
    /\ SkillMatchCalled
    /\ resume_text = <<>>
    /\ job_description_text = <<97, 110, 116, 32, 116, 97, 110>>

\* C5: for non-empty normalized texts on which the call returns, the missing
\* terms are exactly the whitespace tokens of the reference that are not
\* whitespace tokens of the candidate (stop-words and single letters included,
\* no candidate-only token), in strictly increasing lexicographic order.
C5_MissingTermsAreSortedSetDifference ==
    (/\ matched.status = "returned"
     /\ resume_text # <<>> /\ job_description_text # <<>>) =>
        LET ms == matched.missing
        IN  /\ {ms[i] : i \in DOMAIN ms}
                 = WhitespaceTokens(job_description_text) \ WhitespaceTokens(resume_text)
            /\ \A i \in 1..(Len(ms) - 1) : StrLess(ms[i], ms[i + 1])

\* C5 witness: calculate_skill_match("ant", "tan t an") has returned
\* ["an", "t", "tan"]: a stop-word and a single letter are reported.
C5_Witness ==
    /\ matched.status = "returned"
    /\ resume_text = <<97, 110, 116>>
    /\ job_description_text = <<116, 97, 110, 32, 116, 32, 97, 110>>
    /\ matched.missing = <<(<<97, 110>>), (<<116>>), (<<116, 97, 110>>)>>

\* C6: for every pair of texts, pairs made only of stop-words included,
\* calculate_skill_match returns a score within [0, 100].
C6_ScoreAlwaysInRange ==
    SkillMatchCalled =>
        (matched.status = "returned" /\ matched.score >= 0 /\ matched.score <= 100)

\* C7: for a non-empty normalized text x with a token of two letters or more that
\* is no stop-word, calculate_skill_match(x, x) returns score 100 and no missing terms.
C7_IdenticalTextsScoreHundred ==
    (/\ SkillMatchCalled
     /\ resume_text = job_description_text
     /\ VocabularyTokens(resume_text) # {})
    => (matched.status = "returned" /\ matched.score = 100 /\ matched.missing = <<>>)

\* C7 witness: calculate_skill_match("an ant ant", "an ant ant") has returned.
C7_Witness ==
    /\ matched.status = "returned"
    /\ resume_text = <<97, 110, 32, 97, 110, 116, 32, 97, 110, 116>>
    /\ job_description_text = resume_text

\* C8: the score is symmetric: the call with the arguments swapped has the same
\* outcome (it returns or raises alike) and the same score; the missing terms
\* may differ.
C8_ScoreIsSymmetric ==
    SkillMatchCalled =>
        LET swapped == calculate_skill_match(job_description_text, resume_text)
        IN  /\ swapped.status = matched.status
            /\ swapped.score = matched.score

\* C8 witness: calculate_skill_match("ant", "ant ant tan") has returned a score
\* strictly between 0 and 100, and the missing terms of the two orders differ.
C8_Witness ==
    /\ matched.status = "returned"
    /\ resume_text = <<97, 110, 116>>
    /\ job_description_text = <<97, 110, 116, 32, 97, 110, 116, 32, 116, 97, 110>>
    /\ matched.score > 0 /\ matched.score < 100
    /\ matched.missing # calculate_skill_match(job_description_text, resume_text).missing

\* C9: when the joint vocabulary is non-empty and the two texts share no
\* vocabulary term (one of them may have none at all), calculate_skill_match
\* returns score 0 and does not raise.
C9_DisjointVocabulariesScoreZero ==
    (/\ SkillMatchCalled
     /\ resume_text # <<>> /\ job_description_text # <<>>
     /\ VocabularyTokens(resume_text) \cup VocabularyTokens(job_description_text) # {}
     /\ VocabularyTokens(resume_text) \cap VocabularyTokens(job_description_text) = {})
    => (matched.status = "returned" /\ matched.score = 0)

\* C9 witness: calculate_skill_match("an ant", "an tan") has returned: the texts
\* share the stop-word "an" and no vocabulary term.
C9_Witness ==
    /\ matched.status = "returned"
    /\ resume_text = <<97, 110, 32, 97, 110, 116>>
    /\ job_description_text = <<97, 110, 32, 116, 97, 110>>

\* C10: on every press of "Analyze Match", calculate_skill_match is called and a
\* score is displayed if and only if both raw texts are non-empty; if either is
\* empty, of the block's messages only the "please upload both" warning is shown
\* and neither clean_text nor calculate_skill_match is called.
C10_AnalyzeIffBothUploaded ==
    analyze_pressed =>
        LET both == resume_raw_text # <<>> /\ job_description_raw_text # <<>>
            called == "calculate_skill_match" \in set(calls)
            score == "score" \in set(shown)
        IN  /\ (called /\ score) <=> both
            /\ ~both =>
                /\ "warning: please upload both" \in set(shown)
                /\ set(shown) \cap AnalysisMessages = {}
                /\ "clean_text" \notin set(calls)
                /\ ~called

====
